---- MODULE Spec2Model ----
(***************************************************************************)
(* Model of the desktop task timer (src/task_manager.py): the Task timer  *)
(* model, the TaskManager registry with its sqlite table, the Add-Task     *)
(* form, the App window (widgets, refresh ticks, reset sweep) and main().  *)
(* Time is in whole seconds.                                               *)
(***************************************************************************)
EXTENDS Integers, Sequences, FiniteSets, TLC

(* ---------------------------- bounds ----------------------------------- *)
\* value of time.time() when the first process starts
Epoch == 4000
\* the clock advances at most this many times
MaxTicks == 1
\* at most this many tasks are held in the registry
MaxTasks == 2
\* at most this many refresh ticks of one task are pending at a time
MaxPending == 2

\* seconds in an hour, as in remaining_time's divmod
Hour == 3600
\* the clock advances by a second or by an hour
Steps == {1, Hour}
Names == {"Laundry", "Dishes"}
HoursInputs == {"0", "1"}
MinutesInputs == {"0", "1", "x"}
Categories == {"Daily", "Weekly", "Monthly"}
\* readings of datetime.now(): weekday 0 is Monday
WallClocks ==
    {[hour |-> 0, minute |-> 0, weekday |-> 1, day |-> 2],
     [hour |-> 0, minute |-> 0, weekday |-> 0, day |-> 2],
     [hour |-> 0, minute |-> 0, weekday |-> 1, day |-> 1],
     [hour |-> 0, minute |-> 0, weekday |-> 0, day |-> 1],
     [hour |-> 0, minute |-> 1, weekday |-> 0, day |-> 1],
     [hour |-> 1, minute |-> 0, weekday |-> 0, day |-> 1]}

VARIABLES
    pc,           \* "start": main() not yet run; "mainloop": inside root.mainloop()
    now,          \* time.time()
    tasks,        \* TaskManager.tasks
    db,           \* rows of the sqlite table tasks
    frames,       \* children of App.tasks_frame, one per rendered task
    task_buttons, \* App.task_buttons / task_timers / task_progress_bars (same keys)
    after,        \* pending master.after(1000, update_timer(name)) callbacks, per name
    error_label,  \* text of the error label set by the last Add-Task submission
    ran           \* history: per task, time spent running since creation or last
                  \* reset in completed intervals, and start of the counted interval

vars == <<pc, now, tasks, db, frames, task_buttons, after, error_label, ran>>

(* ------------------------------ Task ----------------------------------- *)
Max(a, b) == IF a >= b THEN a ELSE b

\* Task.__init__
Task(name, duration, category) ==
    [name |-> name, duration |-> duration, category |-> category,
     elapsed_time |-> 0, start_time |-> 0, running |-> FALSE]

\* Task.start
start(t, time) ==
    IF ~t.running THEN [t EXCEPT !.start_time = time, !.running = TRUE] ELSE t

\* Task.pause
pause(t, time) ==
    IF t.running
    THEN [t EXCEPT !.elapsed_time = @ + (time - t.start_time), !.running = FALSE]
    ELSE t

\* Task.toggle_status
toggle_status(t, time) == IF t.running THEN pause(t, time) ELSE start(t, time)

\* remaining_seconds without the clamp to zero
remaining_seconds_unclamped(t, time) ==
    IF t.running
    THEN t.duration * 60 - t.elapsed_time - (time - t.start_time)
    ELSE t.duration * 60 - t.elapsed_time

\* remaining_seconds as computed in remaining_time and progress_percentage
remaining_seconds(t, time) ==
    IF t.running
    THEN Max(0, t.duration * 60 - t.elapsed_time - (time - t.start_time))
    ELSE Max(0, t.duration * 60 - t.elapsed_time)

\* Task.remaining_time: the fields of the "HH:MM:SS" string
remaining_time(t, time) ==
    LET r == remaining_seconds(t, time)
        hours == r \div Hour
        remainder == r % Hour
    IN  <<hours, remainder \div 60, remainder % 60>>

\* Task.progress_percentage: the quotient 100 * remaining / (duration * 60),
\* kept exact as numerator and denominator
progress_percentage(t, time) ==
    [num |-> 100 * remaining_seconds(t, time), den |-> t.duration * 60]

(* --------------------------- TaskManager ------------------------------- *)
\* index of the first task named name, 0 when there is none
FirstNamed(ts, name) ==
    IF \E i \in DOMAIN ts : ts[i].name = name
    THEN CHOOSE i \in DOMAIN ts :
            ts[i].name = name /\ \A j \in DOMAIN ts : ts[j].name = name => i <= j
    ELSE 0

\* the row TaskManager.add_task inserts for a task
RowOf(t) ==
    [name |-> t.name, duration |-> t.duration, category |-> t.category,
     elapsed_time |-> t.elapsed_time, start_time |-> t.start_time,
     running |-> IF t.running THEN 1 ELSE 0]

\* the task TaskManager.load_tasks_from_db builds from a row
TaskOfRow(row) ==
    [Task(row.name, row.duration, row.category) EXCEPT
        !.elapsed_time = row.elapsed_time,
        !.start_time = row.start_time,
        !.running = (row.running # 0)]

\* TaskManager.load_tasks_from_db: appends one task per row
load_tasks_from_db(ts, rows) == ts \o [i \in DOMAIN rows |-> TaskOfRow(rows[i])]

\* add_task that appends to the list without inserting the row
add_task_db_skipped(rows, t) == rows

\* TaskManager.add_task: the table after the INSERT
add_task_db(rows, t) == Append(rows, RowOf(t))

\* TaskManager.add_task: the list after the append
add_task_list(ts, t) == Append(ts, t)

\* TaskManager.remove_task: the table after DELETE ... WHERE name=?
remove_task_db(rows, task_name) == SelectSeq(rows, LAMBDA r : r.name # task_name)

\* TaskManager.remove_task: the list after the filter
remove_task_list(ts, task_name) == SelectSeq(ts, LAMBDA t : t.name # task_name)

\* reset_daily_tasks that also stops the tasks it resets
reset_daily_tasks_stopping(ts) ==
    [i \in DOMAIN ts |->
        IF ts[i].category = "Daily"
        THEN [ts[i] EXCEPT !.elapsed_time = 0, !.start_time = 0, !.running = FALSE]
        ELSE ts[i]]

\* TaskManager.reset_daily_tasks
reset_daily_tasks(ts) ==
    [i \in DOMAIN ts |->
        IF ts[i].category = "Daily"
        THEN [ts[i] EXCEPT !.elapsed_time = 0, !.start_time = 0]
        ELSE ts[i]]

\* TaskManager.reset_weekly_tasks
reset_weekly_tasks(ts) ==
    [i \in DOMAIN ts |->
        IF ts[i].category = "Weekly"
        THEN [ts[i] EXCEPT !.elapsed_time = 0, !.start_time = 0]
        ELSE ts[i]]

\* TaskManager.reset_monthly_tasks
reset_monthly_tasks(ts) ==
    [i \in DOMAIN ts |->
        IF ts[i].category = "Monthly"
        THEN [ts[i] EXCEPT !.elapsed_time = 0, !.start_time = 0]
        ELSE ts[i]]

(* ------------------------- reset scheduler ----------------------------- *)
\* the three conditions of App.schedule_resets
DailyDue(w) == w.hour = 0 /\ w.minute = 0
WeeklyDue_any_time(w) == w.weekday = 0
WeeklyDue(w) == w.weekday = 0 /\ w.hour = 0 /\ w.minute = 0
MonthlyDue(w) == w.day = 1 /\ w.hour = 0 /\ w.minute = 0

\* the resets App.schedule_resets calls when datetime.now() reads w
ResetsCalled(w) ==
    (IF DailyDue(w) THEN {"Daily"} ELSE {})
    \cup (IF WeeklyDue(w) THEN {"Weekly"} ELSE {})
    \cup (IF MonthlyDue(w) THEN {"Monthly"} ELSE {})

\* App.schedule_resets: the registry after the calls, in the order of the code
schedule_resets(ts, w) ==
    LET d == IF "Daily" \in ResetsCalled(w) THEN reset_daily_tasks(ts) ELSE ts
        k == IF "Weekly" \in ResetsCalled(w) THEN reset_weekly_tasks(d) ELSE d
    IN  IF "Monthly" \in ResetsCalled(w) THEN reset_monthly_tasks(k) ELSE k

(* ------------------------------ App ------------------------------------ *)
\* The window state g is [frames, task_buttons, after].  task_buttons[n] is
\* 0 when the dictionaries hold no key n, the index in frames of the widgets
\* they hold for n, or -1 when those widgets have been destroyed.

\* App.update_timer.  The label and the progress bar are set to
\* remaining_time() and progress_percentage() as of the call; the texts are
\* never read back and are not kept in the window state.
update_timer(g, ts, time, task_name) ==
    LET i == FirstNamed(ts, task_name)
        w == g.task_buttons[task_name]
    IN  IF i = 0 \/ w <= 0
        THEN g
        ELSE [g EXCEPT !.after[task_name] = IF ts[i].running THEN @ + 1 ELSE @]

\* App.update_tasks, first loop: every child of tasks_frame is destroyed
destroy_children(g) ==
    [g EXCEPT
        !.frames = <<>>,
        !.task_buttons = [n \in DOMAIN g.task_buttons |->
                            IF g.task_buttons[n] = 0 THEN 0 ELSE -1]]

\* App.update_tasks, second loop from task i on
RECURSIVE create_widgets(_, _, _, _)
create_widgets(g, ts, time, i) ==
    IF i > Len(ts)
    THEN g
    ELSE LET task == ts[i]
             frame == [name |-> task.name, category |-> task.category,
                       text |-> IF ~task.running THEN "Start" ELSE "Pause",
                       state |-> "normal"]
             made == [g EXCEPT
                        !.frames = Append(@, frame),
                        !.task_buttons[task.name] = Len(g.frames) + 1]
         IN  create_widgets(update_timer(made, ts, time, task.name), ts, time, i + 1)

\* App.update_tasks
update_tasks(g, ts, time) == create_widgets(destroy_children(g), ts, time, 1)

\* App.toggle_task_status, the button configuration after the toggle
mark_completed(g, task) ==
    IF ~task.running
    THEN [g EXCEPT !.frames[g.task_buttons[task.name]].text = "Completed",
                   !.frames[g.task_buttons[task.name]].state = "disabled"]
    ELSE g

\* App.toggle_task_status: the registry after the handler
toggle_task_status_tasks(ts, time, task_name) ==
    LET i == FirstNamed(ts, task_name)
    IN  IF i = 0 THEN ts ELSE [ts EXCEPT ![i] = toggle_status(ts[i], time)]

\* App.toggle_task_status: the window after the handler
toggle_task_status(g, ts, time, task_name) ==
    LET i == FirstNamed(ts, task_name)
        ts2 == toggle_task_status_tasks(ts, time, task_name)
    IN  IF i = 0 THEN g
        ELSE IF ~ts2[i].running /\ g.task_buttons[task_name] <= 0
        THEN g   \* the button lookup raises: update_tasks is not reached
        ELSE update_tasks(mark_completed(g, ts2[i]), ts2, time)

(* ---------------------------- Add-Task form ---------------------------- *)
\* str.isdigit and int() on the spinbox texts the model enters
DigitValue == ("0" :> 0) @@ ("1" :> 1)
isdigit(s) == s \in DOMAIN DigitValue

\* add_task's validation without the check for an existing name
add_task_error_unchecked(ts, name, hours, minutes) ==
    IF name = "" THEN "Please give the task a name."
    ELSE IF ~(isdigit(hours) /\ isdigit(minutes))
    THEN "Please enter only digits for hours and minutes."
    ELSE IF DigitValue[hours] = 0 /\ DigitValue[minutes] = 0
    THEN "Please add time to the task, it cannot be 0."
    ELSE ""

\* AddTaskWindow.add_task: the error shown, "" when the submission passes
add_task_error(ts, name, hours, minutes) ==
    IF name = "" THEN "Please give the task a name."
    ELSE IF ~(isdigit(hours) /\ isdigit(minutes))
    THEN "Please enter only digits for hours and minutes."
    ELSE IF DigitValue[hours] = 0 /\ DigitValue[minutes] = 0
    THEN "Please add time to the task, it cannot be 0."
    ELSE IF \E i \in DOMAIN ts : ts[i].name = name
    THEN "Task with this name already exists."
    ELSE ""

\* AddTaskWindow.add_task: the task built from a valid submission
new_task(name, hours, minutes, category) ==
    Task(name, DigitValue[hours] * 60 + DigitValue[minutes], category)

(* ------------------- history of the time spent running ----------------- *)
NoRun == [total |-> 0, since |-> 0]

\* a task was started or paused at time
RanToggled(h, t, time) ==
    IF t.running
    THEN [total |-> h.total + (time - h.since), since |-> 0]
    ELSE [total |-> h.total, since |-> time]

\* the categories in cats were reset at time
RanReset(h, ts, cats, time) ==
    [n \in DOMAIN h |->
        LET i == FirstNamed(ts, n)
        IN  IF i # 0 /\ ts[i].category \in cats
            THEN [total |-> 0, since |-> IF ts[i].running THEN time ELSE 0]
            ELSE h[n]]

(* ----------------------------- the system ------------------------------ *)
Window == [frames |-> frames, task_buttons |-> task_buttons, after |-> after]

NoWindow ==
    [frames |-> <<>>, task_buttons |-> [n \in Names |-> 0], after |-> [n \in Names |-> 0]]

SetWindow(g) ==
    /\ \A n \in Names : g.after[n] <= MaxPending
    /\ frames' = g.frames
    /\ task_buttons' = g.task_buttons
    /\ after' = g.after

Init ==
    /\ pc = "start"
    /\ now = Epoch
    /\ tasks = <<>>
    /\ db = <<>>
    /\ frames = NoWindow.frames
    /\ task_buttons = NoWindow.task_buttons
    /\ after = NoWindow.after
    /\ error_label = ""
    /\ ran = [n \in Names |-> NoRun]

\* the number of advances that brought the clock to time
TicksAt(time) == ((time - Epoch) \div Hour) + ((time - Epoch) % Hour)

\* time passes
Tick(d) ==
    /\ TicksAt(now + d) <= MaxTicks
    /\ now' = now + d
    /\ UNCHANGED <<pc, tasks, db, frames, task_buttons, after, error_label, ran>>

\* main(): App.__init__ (update_tasks, then schedule_resets, on the empty
\* registry), then load_tasks_from_db, then mainloop
Startup(w) ==
    /\ pc = "start"
    /\ pc' = "mainloop"
    /\ SetWindow(update_tasks(NoWindow, <<>>, now))
    /\ tasks' = load_tasks_from_db(schedule_resets(<<>>, w), db)
    /\ ran' = [n \in Names |-> NoRun]
    /\ error_label' = ""
    /\ UNCHANGED <<now, db>>

\* the window is closed: mainloop returns and the process ends; the table stays
Exit ==
    /\ pc = "mainloop"
    /\ pc' = "start"
    /\ tasks' = <<>>
    /\ SetWindow(NoWindow)
    /\ error_label' = ""
    /\ ran' = [n \in Names |-> NoRun]
    /\ UNCHANGED <<now, db>>

\* AddTaskWindow.add_task: the Add Task button of an Add-Task window is pressed
AddTaskSubmit(name, hours, minutes, category) ==
    /\ pc = "mainloop"
    /\ LET err == add_task_error(tasks, name, hours, minutes)
       IN  IF err # ""
           THEN /\ error_label' = err
                /\ UNCHANGED <<tasks, db, frames, task_buttons, after, ran>>
           ELSE LET t == new_task(name, hours, minutes, category)
                IN  /\ Len(tasks) < MaxTasks
                    /\ db' = add_task_db(db, t)
                    /\ tasks' = add_task_list(tasks, t)
                    /\ SetWindow(update_tasks(Window, tasks', now))
                    /\ error_label' = ""
                    /\ ran' = [ran EXCEPT ![name] = NoRun]
    /\ UNCHANGED <<pc, now>>

\* App.toggle_task_status: the action button of a rendered task is pressed
ToggleClick(name) ==
    /\ pc = "mainloop"
    /\ \E k \in DOMAIN frames : frames[k].name = name /\ frames[k].state = "normal"
    /\ tasks' = toggle_task_status_tasks(tasks, now, name)
    /\ SetWindow(toggle_task_status(Window, tasks, now, name))
    /\ ran' = IF FirstNamed(tasks, name) = 0 THEN ran
              ELSE [ran EXCEPT ![name] =
                        RanToggled(@, tasks[FirstNamed(tasks, name)], now)]
    /\ UNCHANGED <<pc, now, db, error_label>>

\* App.remove_task: the Remove button of a rendered task is pressed
RemoveClick(name) ==
    /\ pc = "mainloop"
    /\ \E k \in DOMAIN frames : frames[k].name = name
    /\ db' = remove_task_db(db, name)
    /\ tasks' = remove_task_list(tasks, name)
    /\ SetWindow(update_tasks(Window, tasks', now))
    /\ ran' = [ran EXCEPT ![name] = NoRun]
    /\ UNCHANGED <<pc, now, error_label>>

\* a pending master.after(1000, update_timer(name)) callback fires
TimerFire(name) ==
    /\ pc = "mainloop"
    /\ after[name] > 0
    /\ SetWindow(update_timer([Window EXCEPT !.after[name] = @ - 1], tasks, now, name))
    /\ UNCHANGED <<pc, now, tasks, db, error_label, ran>>

\* the pending master.after(60000, schedule_resets) callback fires
SweepTick(w) ==
    /\ pc = "mainloop"
    /\ UNCHANGED <<pc, now, db, frames, task_buttons, after, error_label>>
    /\ tasks' = schedule_resets(tasks, w)
    /\ ran' = RanReset(ran, tasks, ResetsCalled(w), now)

Rendered == {frames[k].name : k \in DOMAIN frames}
Registered == {tasks[i].name : i \in DOMAIN tasks}

\* the categories submitted with each name when two tasks are modelled: a
\* Daily task next to a Weekly or a Monthly one
SubmittedCategories(name) ==
    IF name = "Laundry" THEN {"Daily"} ELSE {"Weekly", "Monthly"}

\* Two tasks of one minute, submissions that pass the validation, a clock
\* that advances by hours
Next ==
    \/ \E d \in {Hour} : Tick(d)
    \/ \E w \in WallClocks : Startup(w)
    \/ Exit
    \/ \E name \in Names \ Registered : \E category \in SubmittedCategories(name) :
          AddTaskSubmit(name, "0", "1", category)
    \/ \E name \in Names : ToggleClick(name)
    \/ \E name \in Names : RemoveClick(name)
    \/ \E name \in Names : TimerFire(name)
    \/ \E w \in WallClocks : SweepTick(w)

Spec == Init /\ [][Next]_vars

\* One task, every kind of submission, a clock that advances by seconds and hours
NextTimer ==
    \/ \E d \in Steps : Tick(d)
    \/ \E w \in WallClocks : Startup(w)
    \/ Exit
    \/ \E name \in {"Laundry", ""}, hours \in HoursInputs, minutes \in MinutesInputs,
          category \in Categories : AddTaskSubmit(name, hours, minutes, category)
    \/ ToggleClick("Laundry")
    \/ RemoveClick("Laundry")
    \/ TimerFire("Laundry")
    \/ \E w \in WallClocks : SweepTick(w)

SpecTimer == Init /\ [][NextTimer]_vars

(* ---------------------------- properties ------------------------------- *)
TaskAt(name) == tasks[FirstNamed(tasks, name)]

\* C1: a task's elapsed_time equals the time the task has spent running, in
\* completed intervals, since its creation or its most recent reset.
C1_ElapsedIsRunTime ==
    \A i \in DOMAIN tasks : tasks[i].elapsed_time = ran[tasks[i].name].total

\* the time elapsed as remaining_time and progress_percentage count it
Elapsed(t) == t.elapsed_time + (IF t.running THEN now - t.start_time ELSE 0)

Zeroed(t) == [t EXCEPT !.elapsed_time = 0, !.start_time = 0]

\* C3: a sweep that calls the resets of some categories sets elapsed_time and
\* start_time to 0 for the tasks of those categories and changes nothing else:
\* not the other tasks, not the running flag, name, duration or category of
\* any task, not the membership or order of the registry, the rows or the window.
C3_ResetFrame ==
    [][\A w \in WallClocks :
          SweepTick(w) =>
            /\ Len(tasks') = Len(tasks)
            /\ \A i \in DOMAIN tasks :
                 tasks'[i] = IF tasks[i].category \in ResetsCalled(w)
                             THEN Zeroed(tasks[i]) ELSE tasks[i]
            /\ \A i \in DOMAIN tasks :
                 /\ tasks'[i].running = tasks[i].running
                 /\ tasks'[i].name = tasks[i].name
                 /\ tasks'[i].duration = tasks[i].duration
                 /\ tasks'[i].category = tasks[i].category
            /\ UNCHANGED <<db, frames, task_buttons, after, pc, now>>]_vars

\* C3 witness: a Daily task reset while running next to a task of another
\* category that keeps the hour it ran.
C3_Witness ==
    \E i, j \in DOMAIN tasks :
        /\ tasks[i].category = "Daily" /\ tasks[i].running
        /\ tasks[i].elapsed_time = 0 /\ tasks[i].start_time = 0
        /\ tasks[j].category # "Daily" /\ tasks[j].elapsed_time = Hour

UniqueNames(seq) == \A i, j \in DOMAIN seq : seq[i].name = seq[j].name => i = j

\* C4: no two tasks of the registry (and no two rows) share a name, and an
\* Add-Task submission naming a task already in the registry changes neither
\* the registry nor the rows (a step that changes either is no such submission).
C4_UniqueNames ==
    [][/\ UniqueNames(tasks') /\ UniqueNames(db')
       /\ \/ UNCHANGED <<tasks, db>>
          \/ \A name \in Registered, hours \in HoursInputs,
                minutes \in MinutesInputs, category \in Categories :
                ~AddTaskSubmit(name, hours, minutes, category)]_vars

\* C4 witness: a submission naming the task loaded from the table by a later
\* run of the program was rejected as a duplicate.
C4_Witness ==
    /\ error_label = "Task with this name already exists."
    /\ Len(tasks) = 1 /\ Len(db) = 1
    /\ frames = <<>>

\* C5: a task is running if and only if its start_time is set (non-zero).
C5_RunningIffStartSet ==
    \A i \in DOMAIN tasks : tasks[i].running <=> (tasks[i].start_time # 0)

Key(r) == <<r.name, r.duration, r.category>>
Count(seq, k) == Cardinality({i \in DOMAIN seq : Key(seq[i]) = k})
Keys(seq) == {Key(seq[i]) : i \in DOMAIN seq}
KeySeq(seq) == [i \in DOMAIN seq |-> Key(seq[i])]

\* the rows and the registry hold the same multiset of (name, duration, category)
Mirrored == \A k \in Keys(tasks) \cup Keys(db) : Count(tasks, k) = Count(db, k)

\* C6: once the startup load has run the rows and the registry hold the same
\* tasks; an accepted add inserts one row and one task, a remove deletes
\* exactly the rows and the tasks of that name, a toggle or a reset sweep
\* changes neither the rows nor the membership (a step that changes either is
\* neither a toggle nor a sweep).
C6_RowsMirrorRegistry ==
    [][/\ pc' = "mainloop" => Mirrored'
       /\ \/ Len(db') = Len(db) + 1 /\ Len(tasks') = Len(tasks) + 1
          \/ \A name \in Names \ Registered, category \in Categories :
                ~AddTaskSubmit(name, "0", "1", category)
       /\ \A name \in Names :
            RemoveClick(name)
               => \A k \in Keys(tasks) \cup Keys(db) :
                     /\ Count(db', k) = IF k[1] = name THEN 0 ELSE Count(db, k)
                     /\ Count(tasks', k) = IF k[1] = name THEN 0 ELSE Count(tasks, k)
       /\ \/ db' = db /\ KeySeq(tasks') = KeySeq(tasks)
          \/ /\ \A name \in Names : ~ToggleClick(name)
             /\ \A w \in WallClocks : ~SweepTick(w)]_vars

\* C6 witness: a later run of the program has loaded two rows at startup.
C6_Witness ==
    /\ pc = "mainloop"
    /\ Len(db) = 2 /\ Len(tasks) = 2
    /\ frames = <<>>

\* the condition the specification gives for the reset of a category
C7_Due(category, w) ==
    /\ w.hour = 0 /\ w.minute = 0
    /\ category = "Weekly" => w.weekday = 0
    /\ category = "Monthly" => w.day = 1

Dirty(t) == t.elapsed_time # 0 \/ t.start_time # 0
Clean(t) == t.elapsed_time = 0 /\ t.start_time = 0

\* C7: on a sweep tick a task that has run is reset if and only if hour = 0
\* and minute = 0 and, for a Weekly task, the weekday is Monday and, for a
\* Monthly task, the day of month is 1; a tick that resets a Weekly or Monthly
\* task resets every Daily task, and a tick outside 00:00 changes no task.
C7_SweepConditions ==
    [][\A w \in WallClocks :
          SweepTick(w) =>
            /\ \A i \in DOMAIN tasks :
                 /\ C7_Due(tasks[i].category, w) => Clean(tasks'[i])
                 /\ (Dirty(tasks[i]) /\ Clean(tasks'[i])) => C7_Due(tasks[i].category, w)
            /\ \A i, j \in DOMAIN tasks :
                 (/\ tasks[i].category \in {"Weekly", "Monthly"}
                  /\ Dirty(tasks[i]) /\ Clean(tasks'[i])
                  /\ tasks[j].category = "Daily") => Clean(tasks'[j])
            /\ ~(w.hour = 0 /\ w.minute = 0) => tasks' = tasks]_vars

\* C7 witness: a Weekly task and a Daily task were both reset while running.
C7_Witness ==
    \E i, j \in DOMAIN tasks :
        /\ tasks[i].category = "Weekly" /\ tasks[i].running /\ Clean(tasks[i])
        /\ tasks[j].category = "Daily" /\ tasks[j].running /\ Clean(tasks[j])

\* C8: each running task has exactly one pending refresh tick.
C8_OnePendingTickPerRunningTask ==
    pc = "mainloop" =>
        \A i \in DOMAIN tasks : tasks[i].running => after[tasks[i].name] = 1

\* C9: when the toggle action pauses a running task, the task's action button
\* is labelled "Completed" and is disabled once the handler has completed.
C9_PausedButtonCompleted ==
    [][\A name \in Names :
          (ToggleClick(name) /\ name \in Registered /\ TaskAt(name).running)
             => \E k \in DOMAIN frames' :
                   /\ frames'[k].name = name
                   /\ frames'[k].text = "Completed"
                   /\ frames'[k].state = "disabled"]_vars

\* C10: once startup has finished, the tasks with widgets in the window are
\* the tasks of the registry.
C10_WidgetsMatchRegistry == pc = "mainloop" => Rendered = Registered

====
